---- MODULE Spec2Model ----
(***************************************************************************)
(* Model of arxiv-app.py: the Streamlit script that builds an arXiv query  *)
(* from the sidebar widgets, fetches the feed, parses it into paper        *)
(* records and re-screens them against the topic keywords.                 *)
(*                                                                         *)
(* Python strings are TLA+ strings (Len, SubSeq and \o act on them), so    *)
(* the query expression, the substring screen and the date formatting are  *)
(* computed character by character as the code computes them.              *)
(***************************************************************************)
EXTENDS Integers, Sequences, FiniteSets, TLC

VARIABLES
    pc,                  \* position of the script run
    search_query,        \* st.text_input
    selected_topics,     \* topic name -> checkbox value
    include_abstracts,   \* st.checkbox
    selected_categories, \* st.multiselect (a list)
    date_range,          \* st.slider: <<start, end>>
    sort_by,             \* st.sidebar.radio
    max_results,         \* st.slider
    response,            \* what requests.get comes back with
    topic_terms,         \* build_arxiv_query: topic_terms
    query_parts,         \* build_arxiv_query: query_parts
    query,               \* build_arxiv_query: final_query
    params,              \* fetch_arxiv_papers: params
    xml_data,            \* fetch_arxiv_papers: return value
    all_papers,          \* parse_arxiv_response: return value
    matched_papers,      \* the list comprehension over paper_matches_topics
    messages,            \* st.error / st.warning / st.success / st.info calls
    displayed            \* papers handed to display_paper, in call order

vars == <<pc, search_query, selected_topics, include_abstracts,
          selected_categories, date_range, sort_by, max_results, response,
          topic_terms, query_parts, query, params, xml_data, all_papers,
          matched_papers, messages, displayed>>

widgets == <<search_query, selected_topics, include_abstracts,
             selected_categories, date_range, sort_by, max_results>>

----------------------------------------------------------------------------
(* Python str and list helpers *)

Range(s) == {s[i] : i \in 1..Len(s)}

UpperChars == "ABCDEFGHIJKLMNOPQRSTUVWXYZ"

LowerChars == "abcdefghijklmnopqrstuvwxyz"

\* the lower-case letter of every upper-case letter
ToLower ==
    [c \in {SubSeq(UpperChars, i, i) : i \in 1..26} |->
        LET i == CHOOSE j \in 1..26 : SubSeq(UpperChars, j, j) = c
        IN  SubSeq(LowerChars, i, i)]

LowerChar(c) == IF c \in DOMAIN ToLower THEN ToLower[c] ELSE c

RECURSIVE lower(_)
lower(s) ==
    IF s = "" THEN ""
    ELSE LowerChar(SubSeq(s, 1, 1)) \o lower(SubSeq(s, 2, Len(s)))

IsSpace(c) == c \in {" ", "\n", "\t"}

RECURSIVE lstrip(_)
lstrip(s) ==
    IF s # "" /\ IsSpace(SubSeq(s, 1, 1)) THEN lstrip(SubSeq(s, 2, Len(s)))
    ELSE s

RECURSIVE rstrip(_)
rstrip(s) ==
    IF s # "" /\ IsSpace(SubSeq(s, Len(s), Len(s)))
    THEN rstrip(SubSeq(s, 1, Len(s) - 1))
    ELSE s

strip(s) == rstrip(lstrip(s))

\* str.replace("\n", " ")
RECURSIVE replace_newlines(_)
replace_newlines(s) ==
    IF s = "" THEN ""
    ELSE (IF SubSeq(s, 1, 1) = "\n" THEN " " ELSE SubSeq(s, 1, 1))
         \o replace_newlines(SubSeq(s, 2, Len(s)))

\* Python's `sub in s`
Contains(s, sub) ==
    \E i \in 1..(Len(s) - Len(sub) + 1) : SubSeq(s, i, i + Len(sub) - 1) = sub

StartsWith(s, pre) == Len(pre) <= Len(s) /\ SubSeq(s, 1, Len(pre)) = pre

EndsWith(s, suf) ==
    Len(suf) <= Len(s) /\ SubSeq(s, Len(s) - Len(suf) + 1, Len(s)) = suf

\* sep.join(parts)
RECURSIVE Join(_, _)
Join(parts, sep) ==
    IF parts = <<>> THEN ""
    ELSE IF Len(parts) = 1 THEN parts[1]
    ELSE parts[1] \o sep \o Join(Tail(parts), sep)

Digit(n) == SubSeq("0123456789", n + 1, n + 1)

\* str(n) for n >= 0
RECURSIVE Str(_)
Str(n) == IF n < 10 THEN Digit(n) ELSE Str(n \div 10) \o Digit(n % 10)

Pad2(n) == Digit((n \div 10) % 10) \o Digit(n % 10)

Pad4(n) == Pad2(n \div 100) \o Pad2(n % 100)

\* date.strftime("%Y%m%d")
strftime_Ymd(d) == Pad4(d.year) \o Pad2(d.month) \o Pad2(d.day)

DateLE(a, b) ==
    \/ a.year < b.year
    \/ a.year = b.year /\ a.month < b.month
    \/ a.year = b.year /\ a.month = b.month /\ a.day <= b.day

----------------------------------------------------------------------------
(* Module-level tables *)

\* TOPIC_CATEGORIES.keys(), in dict order
TOPIC_CATEGORIES ==
    <<"AI Safety", "AI Governance", "AI Ethics", "Societal Impacts",
      "Long-term AI", "Technical Governance">>

Topics == Range(TOPIC_CATEGORIES)

ARXIV_CATEGORIES ==
    <<"cs.AI", "cs.CY", "cs.LG", "cs.CL", "cs.RO", "cs.HC",
      "stat.ML", "econ.GN", "q-fin.EC">>

SORT_OPTIONS == <<"Relevance", "Date (Newest First)", "Date (Oldest First)">>

\* the *_terms lists of build_arxiv_query
query_terms ==
    [t \in Topics |->
        CASE t = "AI Safety" ->
               <<"safety", "alignment", "robustness", "interpretability",
                 "explainability", "transparency", "reliable", "trustworthy">>
          [] t = "AI Governance" ->
               <<"governance", "policy", "regulation", "standard",
                 "compliance", "oversight", "guideline">>
          [] t = "AI Ethics" ->
               <<"ethics", "fairness", "bias", "discrimination",
                 "accountability", "responsibility", "moral">>
          [] t = "Societal Impacts" ->
               <<"economic impact", "labor market", "job", "employment",
                 "inequality", "social impact", "society">>
          [] t = "Long-term AI" ->
               <<"existential risk", "x-risk", "long-term", "AGI",
                 "artificial general intelligence", "superintelligence">>
          [] t = "Technical Governance" ->
               <<"audit", "evaluation", "assessment", "red team",
                 "benchmark", "testing", "monitor">>]

\* topic_keywords of paper_matches_topics
topic_keywords ==
    [t \in Topics |->
        CASE t = "AI Safety" ->
               <<"safety", "alignment", "robustness", "interpretability",
                 "explainability", "transparent", "reliable", "trustworthy">>
          [] t = "AI Governance" ->
               <<"governance", "policy", "regulation", "standard",
                 "compliance", "oversight", "guideline">>
          [] t = "AI Ethics" ->
               <<"ethics", "fairness", "bias", "discrimination",
                 "accountability", "responsibility", "moral">>
          [] t = "Societal Impacts" ->
               <<"economic", "labor", "job", "employment",
                 "inequality", "social impact", "society">>
          [] t = "Long-term AI" ->
               <<"existential", "x-risk", "long-term", "AGI",
                 "general intelligence", "superintelligence">>
          [] t = "Technical Governance" ->
               <<"audit", "evaluation", "assessment", "red team",
                 "benchmark", "testing", "monitor">>]

----------------------------------------------------------------------------
(* build_arxiv_query *)

Quoted(term) == "\"" \o term \o "\""

\* the user's search terms, when provided
FreeTextParts(sq, incl) ==
    IF sq # ""
    THEN LET cleaned_query == strip(sq)
         IN  IF incl
             THEN <<"(ti:" \o cleaned_query \o " OR abs:" \o cleaned_query \o ")">>
             ELSE <<"ti:" \o cleaned_query>>
    ELSE <<>>

\* topic_terms after the six `if selected_topics[...]` blocks
RECURSIVE TopicTermsFrom(_, _)
TopicTermsFrom(i, sel) ==
    IF i > Len(TOPIC_CATEGORIES) THEN <<>>
    ELSE (IF sel[TOPIC_CATEGORIES[i]] THEN query_terms[TOPIC_CATEGORIES[i]]
          ELSE <<>>) \o TopicTermsFrom(i + 1, sel)

TopicTerms(sel) == TopicTermsFrom(1, sel)

TopicParts(terms, incl) ==
    IF terms # <<>>
    THEN LET topic_query == Join([i \in 1..Len(terms) |-> Quoted(terms[i])], " OR ")
         IN  IF incl
             THEN <<"(ti:(" \o topic_query \o ") OR abs:(" \o topic_query \o "))">>
             ELSE <<"ti:(" \o topic_query \o ")">>
    ELSE <<>>

CatTerm(cat) == "cat:" \o cat

\* `if selected_categories:` left out
CategoryPartsUnguarded(cats) == <<"(" \o Join([i \in 1..Len(cats) |-> CatTerm(cats[i])], " OR ") \o ")">>

CategoryParts(cats) ==
    IF cats # <<>>
    THEN <<"(" \o Join([i \in 1..Len(cats) |-> CatTerm(cats[i])], " OR ") \o ")">>
    ELSE <<>>

DatePart(dr) ==
    "submittedDate:[" \o strftime_Ymd(dr[1]) \o "0000 TO "
        \o strftime_Ymd(dr[2]) \o "2359]"

QueryParts(sq, sel, incl, cats, dr) ==
    FreeTextParts(sq, incl) \o TopicParts(TopicTerms(sel), incl)
        \o CategoryParts(cats) \o <<DatePart(dr)>>

\* the parts joined as they are
Unparenthesized(part) == part

Parenthesized(part) == "(" \o part \o ")"

FinalQuery(parts) == Join([i \in 1..Len(parts) |-> Parenthesized(parts[i])], " AND ")

build_arxiv_query(sq, sel, incl, cats, dr) ==
    FinalQuery(QueryParts(sq, sel, incl, cats, dr))

----------------------------------------------------------------------------
(* fetch_arxiv_papers *)

\* What requests.get can come back with.  kind "response" carries an HTTP
\* status and a body; the other kinds are exceptions raised by requests.get.
NoBody == [wellformed |-> FALSE, entries |-> <<>>]

HttpResponse(status, body) ==
    [kind |-> "response", status |-> status, body |-> body]

ConnectionError == [kind |-> "ConnectionError", status |-> 0, body |-> NoBody]

Timeout == [kind |-> "Timeout", status |-> 0, body |-> NoBody]

\* sort_mapping.get(sort_by, "submittedDate")
SortKey(sb) ==
    CASE sb = "Relevance" -> "relevance"
      [] sb = "Date (Newest First)" -> "submittedDate"
      [] sb = "Date (Oldest First)" -> "submittedDate"
      [] OTHER -> "submittedDate"

\* the direction not switched for the oldest-first mode
SortOrderDescending(sb) == "descending"

SortOrder(sb) == IF sb # "Date (Oldest First)" THEN "descending" ELSE "ascending"

RequestParams(q, mr, sb) ==
    [search_query |-> q, start |-> 0, max_results |-> mr,
     sortBy |-> SortKey(sb), sortOrder |-> SortOrder(sb)]

\* response.raise_for_status(): HTTPError for 4xx and 5xx
RaisesHTTPError(resp) == resp.status >= 400 /\ resp.status < 600

\* raise_for_status left out
RequestFailedNoStatus(resp) == resp.kind # "response"

\* the except clause: any RequestException from get or raise_for_status
RequestFailed(resp) == resp.kind # "response" \/ RaisesHTTPError(resp)

FailureCause(resp) ==
    IF resp.kind # "response" THEN resp.kind
    ELSE Digit(resp.status \div 100) \o Pad2(resp.status % 100) \o " Error"

\* None, or response.text
NoneData == [is_none |-> TRUE, wellformed |-> FALSE, entries |-> <<>>]

TextData(body) ==
    [is_none |-> FALSE, wellformed |-> body.wellformed, entries |-> body.entries]

Message(level, text) == [level |-> level, text |-> text]

fetch_arxiv_papers(q, mr, sb, resp) ==
    [params   |-> RequestParams(q, mr, sb),
     xml_data |-> IF RequestFailed(resp) THEN NoneData ELSE TextData(resp.body),
     messages |-> IF RequestFailed(resp)
                  THEN <<Message("error", "Error fetching papers: "
                                            \o FailureCause(resp))>>
                  ELSE <<>>]

----------------------------------------------------------------------------
(* parse_arxiv_response *)

\* A child element of an entry as ElementTree reports it: entry.find(...) is
\* None (Absent), or an element whose .text is None (Empty) or a string.
Absent == [elem |-> FALSE, has_text |-> FALSE, text |-> ""]

Empty == [elem |-> TRUE, has_text |-> FALSE, text |-> ""]

Text(s) == [elem |-> TRUE, has_text |-> TRUE, text |-> s]

\* entry.find(tag, ns).text raises AttributeError when find returns None
TextRaises(f) == ~f.elem

\* entry.find(tag, ns).text.strip() raises also when .text is None
StripRaises(f) == ~f.elem \/ ~f.has_text

\* .text.strip().replace("\n", " ")
Normalized(f) == replace_newlines(strip(f.text))

IsDigits(s) == \A i \in 1..Len(s) : Contains("0123456789", SubSeq(s, i, i))

DigitValue(c) == CHOOSE n \in 0..9 : Digit(n) = c

RECURSIVE ToInt(_)
ToInt(s) ==
    IF s = "" THEN 0
    ELSE 10 * ToInt(SubSeq(s, 1, Len(s) - 1)) + DigitValue(SubSeq(s, Len(s), Len(s)))

DaysInMonth(y, m) ==
    IF m \in {4, 6, 9, 11} THEN 30
    ELSE IF m # 2 THEN 31
    ELSE IF (y % 4 = 0 /\ y % 100 # 0) \/ y % 400 = 0 THEN 29 ELSE 28

\* The feed's timestamps are YYYY-MM-DDThh:mm:ssZ; that is the form
\* parser.parse is modelled on.  Anything else read here is not a date.
IsTimestamp(s) ==
    /\ Len(s) >= 10
    /\ IsDigits(SubSeq(s, 1, 4)) /\ SubSeq(s, 5, 5) = "-"
    /\ IsDigits(SubSeq(s, 6, 7)) /\ SubSeq(s, 8, 8) = "-"
    /\ IsDigits(SubSeq(s, 9, 10))
    /\ Len(s) > 10 => SubSeq(s, 11, 11) \in {"T", " "}
    /\ ToInt(SubSeq(s, 1, 4)) >= 1
    /\ ToInt(SubSeq(s, 6, 7)) \in 1..12
    /\ ToInt(SubSeq(s, 9, 10)) \in
           1..DaysInMonth(ToInt(SubSeq(s, 1, 4)), ToInt(SubSeq(s, 6, 7)))

\* parser.parse(published): the calendar date (the time of day is not used)
ParseDate(s) ==
    [year |-> ToInt(SubSeq(s, 1, 4)), month |-> ToInt(SubSeq(s, 6, 7)),
     day |-> ToInt(SubSeq(s, 9, 10))]

\* parser.parse raises TypeError on None and ParserError on what is no date
PublishedRaises(f) == TextRaises(f) \/ ~f.has_text \/ ~IsTimestamp(f.text)

\* .strftime("%Y-%m-%d")
strftime_Y_m_d(d) == Pad4(d.year) \o "-" \o Pad2(d.month) \o "-" \o Pad2(d.day)

\* link_tag.get("href") of the first atom:link whose title attribute is
\* `rel`; "" when there is none (an href of "" stands for a missing href)
RECURSIVE FirstLink(_, _)
FirstLink(links, rel) ==
    IF links = <<>> THEN ""
    ELSE IF Head(links).title = rel THEN Head(links).href
    ELSE FirstLink(Tail(links), rel)

\* `if not link: link = entry.find("atom:id", ns).text`
IdNeeded(e) == FirstLink(e.links, "pdf") = ""

LinkRaises(e) == IdNeeded(e) /\ TextRaises(e.id)

\* the pdf href, else the text of atom:id ("" where that text is None)
PrimaryLink(e) == IF IdNeeded(e) THEN e.id.text ELSE FirstLink(e.links, "pdf")

\* the names of the author nodes that have text, stripped
RECURSIVE AuthorNames(_)
AuthorNames(authors) ==
    IF authors = <<>> THEN <<>>
    ELSE (IF Head(authors).has_text /\ Head(authors).text # ""
          THEN <<strip(Head(authors).text)>> ELSE <<>>)
         \o AuthorNames(Tail(authors))

\* the term attributes that are set and not empty
RECURSIVE CategoryTerms(_)
CategoryTerms(cats) ==
    IF cats = <<>> THEN <<>>
    ELSE (IF Head(cats) # "" THEN <<Head(cats)>> ELSE <<>>)
         \o CategoryTerms(Tail(cats))

\* the body of the inner try raises
EntryRaises(e) ==
    \/ StripRaises(e.title)
    \/ StripRaises(e.summary)
    \/ PublishedRaises(e.published)
    \/ LinkRaises(e)

\* the first statement of the inner try that raises
EntryError(e) ==
    IF StripRaises(e.title) THEN "title"
    ELSE IF StripRaises(e.summary) THEN "summary"
    ELSE IF PublishedRaises(e.published) THEN "published"
    ELSE "id"

Paper(e) ==
    [title      |-> Normalized(e.title),
     authors    |-> Join(AuthorNames(e.authors), ", "),
     abstract   |-> Normalized(e.summary),
     pub_date   |-> strftime_Y_m_d(ParseDate(e.published.text)),
     link       |-> PrimaryLink(e),
     categories |-> Join(CategoryTerms(e.categories), ", "),
     doi        |-> FirstLink(e.links, "doi")]

\* `break` in place of `continue`: the loop ends at the first bad entry
RECURSIVE ParseEntriesBreak(_)
ParseEntriesBreak(entries) ==
    IF entries = <<>> THEN [papers |-> <<>>, messages |-> <<>>]
    ELSE LET e == Head(entries)
         IN  IF EntryRaises(e)
             THEN [papers   |-> <<>>,
                   messages |-> <<Message("warning",
                                     "Error parsing a paper entry: " \o EntryError(e))>>]
             ELSE [papers   |-> <<Paper(e)>> \o ParseEntriesBreak(Tail(entries)).papers,
                   messages |-> ParseEntriesBreak(Tail(entries)).messages]

\* the for loop over root.findall(".//atom:entry", ns)
RECURSIVE ParseEntries(_)
ParseEntries(entries) ==
    IF entries = <<>> THEN [papers |-> <<>>, messages |-> <<>>]
    ELSE LET rest == ParseEntries(Tail(entries))
             e    == Head(entries)
         IN  IF EntryRaises(e)
             THEN [papers   |-> rest.papers,
                   messages |-> <<Message("warning",
                                     "Error parsing a paper entry: " \o EntryError(e))>>
                                \o rest.messages]
             ELSE [papers   |-> <<Paper(e)>> \o rest.papers,
                   messages |-> rest.messages]

\* the outer except returning [] without st.error
parse_arxiv_response_silent(xd) ==
    IF xd.is_none \/ ~xd.wellformed THEN [papers |-> <<>>, messages |-> <<>>]
    ELSE ParseEntries(xd.entries)

parse_arxiv_response(xd) ==
    IF xd.is_none THEN [papers |-> <<>>, messages |-> <<>>]
    ELSE IF ~xd.wellformed
    THEN [papers   |-> <<>>,
          messages |-> <<Message("error", "Error parsing ArXiv response: ParseError")>>]
    ELSE ParseEntries(xd.entries)

----------------------------------------------------------------------------
(* paper_matches_topics *)

\* the inner for loop: some keyword of the list is in text_to_check
RECURSIVE AnyKeywordIn(_, _)
AnyKeywordIn(keywords, text_to_check) ==
    IF keywords = <<>> THEN FALSE
    ELSE IF Contains(text_to_check, lower(Head(keywords))) THEN TRUE
    ELSE AnyKeywordIn(Tail(keywords), text_to_check)

\* the outer for loop over selected_topics.items(), from topic i on
RECURSIVE AnyTopicFrom(_, _, _)
AnyTopicFrom(i, sel, text_to_check) ==
    IF i > Len(TOPIC_CATEGORIES) THEN FALSE
    ELSE IF sel[TOPIC_CATEGORIES[i]]
            /\ AnyKeywordIn(topic_keywords[TOPIC_CATEGORIES[i]], text_to_check)
    THEN TRUE
    ELSE AnyTopicFrom(i + 1, sel, text_to_check)

\* the abstract left out of the text
TextToCheckTitleOnly(paper) == lower(paper.title)

TextToCheck(paper) == lower(paper.title \o " " \o paper.abstract)

paper_matches_topics(paper, sel) ==
    IF ~(\E t \in Topics : sel[t]) THEN TRUE
    ELSE AnyTopicFrom(1, sel, TextToCheck(paper))

----------------------------------------------------------------------------
(* The search button handler *)

\* survivors collected in front of the list instead of behind it
RECURSIVE MatchedPapersReversed(_, _)
MatchedPapersReversed(papers, sel) ==
    IF papers = <<>> THEN <<>>
    ELSE MatchedPapersReversed(Tail(papers), sel)
         \o (IF paper_matches_topics(Head(papers), sel) THEN <<Head(papers)>>
             ELSE <<>>)

\* [p for p in all_papers if paper_matches_topics(p, selected_topics)]
RECURSIVE MatchedPapers(_, _)
MatchedPapers(papers, sel) ==
    IF papers = <<>> THEN <<>>
    ELSE (IF paper_matches_topics(Head(papers), sel) THEN <<Head(papers)>>
          ELSE <<>>) \o MatchedPapers(Tail(papers), sel)

\* the messages of the `if matched_papers:` block
ResultMessages(matched) ==
    IF matched # <<>>
    THEN <<Message("success", "Found " \o Str(Len(matched))
                                \o " papers matching your criteria")>>
    ELSE <<Message("info", "No papers found matching your criteria.")>>

----------------------------------------------------------------------------
(* Inputs *)

\* longest feed the server is made to return
MaxEntries == 3

\* the day the script runs: the slider spans the 365 days before it
Today == [year |-> 2024, month |-> 1, day |-> 31]

Dates ==
    {[year |-> 2023, month |-> 1, day |-> 31],
     [year |-> 2023, month |-> 11, day |-> 2],
     [year |-> 2024, month |-> 1, day |-> 1],
     Today}

\* a range slider hands back its two ends in order
DateRanges == {dr \in Dates \X Dates : DateLE(dr[1], dr[2])}

DefaultDateRange == <<[year |-> 2023, month |-> 11, day |-> 2], Today>>

SearchTexts ==
    {"", "alignment", "  large language models ",
     "x) OR (submittedDate:[190001010000 TO 190012312359]"}

CategorySelections ==
    {<<>>, <<"cs.AI">>, <<"cs.LG", "cs.AI">>, ARXIV_CATEGORIES}

TopicSelections == [Topics -> BOOLEAN]

AllTopics == [t \in Topics |-> TRUE]

Only(S) == [t \in Topics |-> t \in S]

Link(title, href) == [title |-> title, href |-> href]

Entry(title, authors, summary, published, links, id, categories) ==
    [title |-> title, authors |-> authors, summary |-> summary,
     published |-> published, links |-> links, id |-> id,
     categories |-> categories]

EntryAlignment ==
    Entry(Text("Robust Alignment\n of Language Models"),
          <<Text("A. Turing"), Text(" G. Hopper "), Empty>>,
          Text(" We study alignment research for large models.\n"),
          Text("2024-01-15T10:30:00Z"),
          <<Link("", "http://arxiv.org/abs/2401.00001v1"),
            Link("pdf", "http://arxiv.org/pdf/2401.00001v1")>>,
          Text("http://arxiv.org/abs/2401.00001v1"),
          <<"cs.AI", "", "cs.LG">>)

EntryInterpretability ==
    Entry(Text("Interpretability of Vision Models"),
          <<Text("E. Noether")>>,
          Text("Reliable features."),
          Text("2023-11-02T00:00:00Z"),
          <<Link("doi", "http://dx.doi.org/10.1000/182"),
            Link("pdf", "http://arxiv.org/pdf/2311.00002v2")>>,
          Text("http://arxiv.org/abs/2311.00002v2"),
          <<"cs.CV">>)

EntryBias ==
    Entry(Text("Measuring BIAS in Hiring"),
          <<>>,
          Text("Fairness audits."),
          Text("2023-12-31T23:59:59Z"),
          <<Link("", "http://arxiv.org/abs/2312.00003v1")>>,
          Text("http://arxiv.org/abs/2312.00003v1"),
          <<>>)

EntryLattice ==
    Entry(Text("Lattice QCD"),
          <<Text("P. Dirac")>>,
          Text("Equation of state."),
          Text("2024-01-02T08:00:00Z"),
          <<Link("pdf", "http://arxiv.org/pdf/2401.00004v1")>>,
          Text("http://arxiv.org/abs/2401.00004v1"),
          <<"hep-lat">>)

EntryNoTitle == [EntryAlignment EXCEPT !.title = Absent]

EntryEmptySummary == [EntryInterpretability EXCEPT !.summary = Empty]

EntryBadDate == [EntryLattice EXCEPT !.published = Text("not a date")]

\* title, summary and published are fine; no pdf link and no id element
EntryNoLinkNoId == [EntryBias EXCEPT !.id = Absent]

WellFormedEntries == {EntryAlignment, EntryInterpretability, EntryBias, EntryLattice}

MalformedEntries == {EntryNoTitle, EntryEmptySummary, EntryBadDate, EntryNoLinkNoId}

FeedEntries == WellFormedEntries \cup MalformedEntries

\* the entries the search runs draw their feeds from
SearchEntries == {EntryAlignment, EntryInterpretability, EntryLattice}

\* the checkboxes the search runs toggle; the others keep their default
SearchTopics == {"AI Safety", "AI Ethics", "Technical Governance"}

SeqsUpTo(S, n) == UNION {[1..k -> S] : k \in 0..n}

Feed(entries) == [wellformed |-> TRUE, entries |-> entries]

\* a body that is not XML
NotXml == [wellformed |-> FALSE, entries |-> <<>>]

\* what requests.get raises on, and the statuses raise_for_status raises on
Failures ==
    {HttpResponse(404, NoBody), HttpResponse(503, NoBody), ConnectionError, Timeout}

\* a 3xx answer that is no redirect to follow comes back as a response, its
\* body empty
NotModified == HttpResponse(304, NoBody)

Responses(E) ==
    {HttpResponse(200, Feed(es)) : es \in SeqsUpTo(E, MaxEntries)}
        \cup {HttpResponse(200, NotXml), NotModified} \cup Failures

NoParams ==
    [search_query |-> "", start |-> 0, max_results |-> 0,
     sortBy |-> "", sortOrder |-> ""]

----------------------------------------------------------------------------
(* The script *)

\* nothing of a search is on the page
Cleared ==
    /\ topic_terms = <<>>
    /\ query_parts = <<>>
    /\ query = ""
    /\ params = NoParams
    /\ xml_data = NoneData
    /\ all_papers = <<>>
    /\ matched_papers = <<>>
    /\ messages = <<>>
    /\ displayed = <<>>

\* a rerun without the button pressed leaves no results
Clear ==
    /\ topic_terms' = <<>>
    /\ query_parts' = <<>>
    /\ query' = ""
    /\ params' = NoParams
    /\ xml_data' = NoneData
    /\ all_papers' = <<>>
    /\ matched_papers' = <<>>
    /\ messages' = <<>>
    /\ displayed' = <<>>

\* the widgets' default values
Defaults ==
    /\ search_query = ""
    /\ selected_topics = AllTopics
    /\ include_abstracts = TRUE
    /\ selected_categories = ARXIV_CATEGORIES
    /\ date_range = DefaultDateRange
    /\ sort_by = "Date (Newest First)"
    /\ max_results = 50

\* The page as first loaded; response is what the server has for this session.
Init ==
    /\ pc = "idle"
    /\ Defaults
    /\ Cleared
    /\ response \in Responses(SearchEntries)

\* A widget change reruns the script with the button not pressed: the page
\* shows no results.
ToggleTopic(t) ==
    /\ selected_topics' = [selected_topics EXCEPT ![t] = ~@]
    /\ pc' = "idle"
    /\ Clear
    /\ UNCHANGED <<search_query, include_abstracts, selected_categories,
                   date_range, sort_by, max_results, response>>

SetSortBy(sb) ==
    /\ sb # sort_by
    /\ sort_by' = sb
    /\ pc' = "idle"
    /\ Clear
    /\ UNCHANGED <<search_query, selected_topics, include_abstracts,
                   selected_categories, date_range, max_results, response>>

\* `if st.button("Search ArXiv"):` with the button pressed
Search ==
    /\ topic_terms' = TopicTerms(selected_topics)
    /\ query_parts' = QueryParts(search_query, selected_topics, include_abstracts,
                                 selected_categories, date_range)
    /\ query' = build_arxiv_query(search_query, selected_topics, include_abstracts,
                                  selected_categories, date_range)
    /\ params' = fetch_arxiv_papers(query', max_results, sort_by, response).params
    /\ xml_data' = fetch_arxiv_papers(query', max_results, sort_by, response).xml_data
    /\ all_papers' = parse_arxiv_response(xml_data').papers
    /\ matched_papers' = MatchedPapers(all_papers', selected_topics)
    /\ messages' = fetch_arxiv_papers(query', max_results, sort_by, response).messages
                       \o parse_arxiv_response(xml_data').messages
                       \o ResultMessages(matched_papers')
    /\ displayed' = matched_papers'
    /\ pc' = "searched"
    /\ UNCHANGED <<widgets, response>>

Next ==
    \/ \E t \in SearchTopics : ToggleTopic(t)
    \/ \E sb \in Range(SORT_OPTIONS) : SetSortBy(sb)
    \/ Search

Spec == Init /\ [][Next]_vars

----------------------------------------------------------------------------
(* The functions on their own: the inputs are drawn, the function is applied *)

\* build_arxiv_query over the widget values it reads
InitBuild ==
    /\ pc = "build"
    /\ search_query \in SearchTexts
    /\ selected_topics \in TopicSelections
    /\ include_abstracts \in BOOLEAN
    /\ selected_categories \in CategorySelections
    /\ date_range \in DateRanges
    /\ sort_by = "Date (Newest First)"
    /\ max_results = 50
    /\ response = HttpResponse(200, Feed(<<>>))
    /\ Cleared

Build ==
    /\ pc = "build"
    /\ pc' = "built"
    /\ topic_terms' = TopicTerms(selected_topics)
    /\ query_parts' = QueryParts(search_query, selected_topics, include_abstracts,
                                 selected_categories, date_range)
    /\ query' = build_arxiv_query(search_query, selected_topics, include_abstracts,
                                  selected_categories, date_range)
    /\ UNCHANGED <<widgets, response, params, xml_data, all_papers,
                   matched_papers, messages, displayed>>

SpecBuild == InitBuild /\ [][Build]_vars

\* parse_arxiv_response over what fetch_arxiv_papers can return
ParseInputs ==
    {NoneData, TextData(NotXml)}
        \cup {TextData(Feed(es)) : es \in SeqsUpTo(FeedEntries, MaxEntries)}

InitParse ==
    /\ pc = "parse"
    /\ Defaults
    /\ response = HttpResponse(200, Feed(<<>>))
    /\ topic_terms = <<>>
    /\ query_parts = <<>>
    /\ query = ""
    /\ params = NoParams
    /\ xml_data \in ParseInputs
    /\ all_papers = <<>>
    /\ matched_papers = <<>>
    /\ messages = <<>>
    /\ displayed = <<>>

Parse ==
    /\ pc = "parse"
    /\ pc' = "parsed"
    /\ all_papers' = parse_arxiv_response(xml_data).papers
    /\ messages' = parse_arxiv_response(xml_data).messages
    /\ UNCHANGED <<widgets, response, topic_terms, query_parts, query, params,
                   xml_data, matched_papers, displayed>>

SpecParse == InitParse /\ [][Parse]_vars

\* paper_matches_topics over one paper and a topic selection
PaperOf(title, abstract) ==
    [title |-> title, authors |-> "", abstract |-> abstract,
     pub_date |-> "2024-01-15", link |-> "http://arxiv.org/abs/2401.00001v1",
     categories |-> "cs.AI", doi |-> ""]

MatchTitles == {"Robust Alignment", "AI red", "Safe", "Lattice QCD", "AGI Timelines"}

MatchAbstracts ==
    {"We study alignment research.", "team exercises", "ty net",
     "Equation of state.", "Collaborative agents"}

MatchPapers == {PaperOf(t, a) : t \in MatchTitles, a \in MatchAbstracts}

InitMatch ==
    /\ pc = "filter"
    /\ search_query = ""
    /\ selected_topics \in TopicSelections
    /\ include_abstracts = TRUE
    /\ selected_categories = ARXIV_CATEGORIES
    /\ date_range = DefaultDateRange
    /\ sort_by = "Date (Newest First)"
    /\ max_results = 50
    /\ response = HttpResponse(200, Feed(<<>>))
    /\ topic_terms = <<>>
    /\ query_parts = <<>>
    /\ query = ""
    /\ params = NoParams
    /\ xml_data = TextData(Feed(<<>>))
    /\ all_papers \in {<<p>> : p \in MatchPapers}
    /\ matched_papers = <<>>
    /\ messages = <<>>
    /\ displayed = <<>>

Filter ==
    /\ pc = "filter"
    /\ pc' = "filtered"
    /\ matched_papers' = MatchedPapers(all_papers, selected_topics)
    /\ UNCHANGED <<widgets, response, topic_terms, query_parts, query, params,
                   xml_data, all_papers, messages, displayed>>

SpecMatch == InitMatch /\ [][Filter]_vars

----------------------------------------------------------------------------
(* Properties *)

SafetyK ==
    "\"safety\" OR \"alignment\" OR \"robustness\" OR \"interpretability\" OR "
    \o "\"explainability\" OR \"transparency\" OR \"reliable\" OR \"trustworthy\""

January2024 ==
    <<[year |-> 2024, month |-> 1, day |-> 1], [year |-> 2024, month |-> 1, day |-> 31]>>

\* the criteria of the worked example: AI Safety, abstracts searched, cs.AI,
\* 2024-01-01 to 2024-01-31, no free text
ExampleCriteria ==
    /\ search_query = ""
    /\ selected_topics = Only({"AI Safety"})
    /\ include_abstracts
    /\ selected_categories = <<"cs.AI">>
    /\ date_range = January2024

\* a date as the eight digits YYYYMMDD
YYYYMMDD(d) == Str(d.year * 10000 + d.month * 100 + d.day)

DateClause(dr) ==
    "submittedDate:[" \o YYYYMMDD(dr[1]) \o "0000 TO " \o YYYYMMDD(dr[2]) \o "2359]"

\* the number of places of s where sub begins
Occurrences(s, sub) ==
    Cardinality({i \in 1..(Len(s) - Len(sub) + 1) : SubSeq(s, i, i + Len(sub) - 1) = sub})

Levels(msgs) == [i \in 1..Len(msgs) |-> msgs[i].level]

\* the relevance filter as stated: no topic selected, or a keyword of a
\* selected topic within the lower-cased title and abstract (joined by a space)
Relevant(paper, sel) ==
    \/ \A t \in Topics : ~sel[t]
    \/ \E t \in Topics :
          /\ sel[t]
          /\ \E k \in Range(topic_keywords[t]) :
                Contains(lower(paper.title \o " " \o paper.abstract), lower(k))

\* C1: after a search the displayed papers are exactly the parsed records
\* that pass the relevance filter for the current topic selection, in feed
\* order: none reordered, duplicated, dropped or cut off, none shown that
\* fails the filter.
C1_ResultIsFilteredSubsequence ==
    pc = "searched" =>
        /\ displayed = SelectSeq(all_papers, LAMBDA p : Relevant(p, selected_topics))
        /\ matched_papers = displayed

\* a feed of three records, the second failing the filter, two distinct
\* survivors shown in feed order
C1_Witness ==
    /\ pc = "searched"
    /\ Len(all_papers) = 3
    /\ selected_topics["AI Safety"]
    /\ ~Relevant(all_papers[2], selected_topics)
    /\ all_papers[1] # all_papers[3]
    /\ displayed = <<all_papers[1], all_papers[3]>>

\* what a failed fetch leaves: None with the cause shown as an error, nothing
\* parsed, nothing displayed, the no-papers notice at the end
EndsEmptyWithFetchError ==
    /\ xml_data.is_none
    /\ Len(messages) = 2
    /\ messages[1].level = "error"
    /\ StartsWith(messages[1].text, "Error fetching papers: ")
    /\ Len(messages[1].text) > Len("Error fetching papers: ")
    /\ messages[2].level = "info"
    /\ all_papers = <<>>
    /\ matched_papers = <<>>
    /\ displayed = <<>>

RaisedByGet(resp) == resp.kind \in {"ConnectionError", "Timeout"}

\* C2 as stated: when the network call of a search fails (a status that is
\* not 2xx, a connection failure or a timeout), fetch_arxiv_papers returns
\* an error outcome with the cause shown, nothing is parsed and no paper is
\* displayed.
C2_Non2xxEndsEmpty ==
    (/\ pc = "searched"
     /\ \/ RaisedByGet(response)
        \/ response.kind = "response" /\ response.status \notin 200..299) =>
        EndsEmptyWithFetchError

\* C2 amended: when the network call of a search fails (a 4xx or 5xx
\* status, a connection failure or a timeout), fetch_arxiv_papers returns
\* None after showing the cause as an error, nothing is parsed and no paper
\* is displayed.
C2_FailedFetchEndsEmpty ==
    (/\ pc = "searched"
     /\ \/ RaisedByGet(response)
        \/ response.kind = "response" /\ response.status \in 400..599) =>
        EndsEmptyWithFetchError

C2_Witness ==
    /\ pc = "searched"
    /\ response = HttpResponse(503, NoBody)
    /\ xml_data.is_none
    /\ Levels(messages) = <<"error", "info">>
    /\ displayed = <<>>

\* C10: the request's (sortBy, sortOrder) is (relevance, descending) for
\* Relevance, (submittedDate, descending) for newest-first and
\* (submittedDate, ascending) for oldest-first.
C10_SortMapping ==
    pc = "searched" =>
        <<params.sortBy, params.sortOrder>> =
            CASE sort_by = "Relevance" -> <<"relevance", "descending">>
              [] sort_by = "Date (Newest First)" -> <<"submittedDate", "descending">>
              [] sort_by = "Date (Oldest First)" -> <<"submittedDate", "ascending">>

C10_Witness ==
    /\ pc = "searched"
    /\ sort_by = "Date (Oldest First)"
    /\ params.sortBy = "submittedDate"
    /\ params.sortOrder = "ascending"

\* title, summary and published are there and can be read
MandatoryFieldsOk(e) ==
    /\ e.title.elem /\ e.title.has_text
    /\ e.summary.elem /\ e.summary.has_text
    /\ e.published.elem /\ e.published.has_text /\ IsTimestamp(e.published.text)

\* the entry has something to take its link from
HasLinkSource(e) == FirstLink(e.links, "pdf") # "" \/ e.id.elem

\* the parse of a well-formed document gave one record for each entry of
\* kept, in document order, and one warning for every other entry
ParsedExactly(kept) ==
        /\ Len(all_papers) = Len(kept)
        /\ \A i \in 1..Len(kept) :
              /\ all_papers[i].title = replace_newlines(strip(kept[i].title.text))
              /\ all_papers[i].abstract = replace_newlines(strip(kept[i].summary.text))
              /\ all_papers[i].pub_date = SubSeq(kept[i].published.text, 1, 10)
        /\ Len(messages) = Len(xml_data.entries) - Len(kept)
        /\ \A i \in 1..Len(messages) : messages[i].level = "warning"

ParsedFeed == pc = "parsed" /\ ~xml_data.is_none /\ xml_data.wellformed

\* C3 as stated: of a well-formed feed, the entries skipped (with a warning
\* each) are exactly those whose title, summary or published date is missing
\* or unparsable; every other entry gives one record, in document order.
C3_OnlyMandatoryFieldsSkip == ParsedFeed => ParsedExactly(SelectSeq(xml_data.entries, MandatoryFieldsOk))

KeptByParser(e) == MandatoryFieldsOk(e) /\ HasLinkSource(e)

\* C3 amended: the entries skipped are those whose title, summary or
\* published date is missing or unparsable and those that have neither a
\* pdf link with an href nor an id element; every other entry gives one
\* record, in document order, and no exception escapes.
C3_SkipsUnreadableEntries == ParsedFeed => ParsedExactly(SelectSeq(xml_data.entries, KeptByParser))

C3_Witness ==
    /\ pc = "parsed"
    /\ xml_data.entries = <<EntryNoTitle, EntryInterpretability, EntryNoLinkNoId>>
    /\ Len(all_papers) = 1
    /\ all_papers[1].title = "Interpretability of Vision Models"
    /\ Levels(messages) = <<"warning", "warning">>

\* C4: input that is not XML gives an empty sequence and one error message
\* naming the document-level parse failure; no record, no exception.
C4_NotXmlGivesEmptyAndError ==
    (pc = "parsed" /\ ~xml_data.is_none /\ ~xml_data.wellformed) =>
        /\ all_papers = <<>>
        /\ Len(messages) = 1
        /\ messages[1].level = "error"
        /\ StartsWith(messages[1].text, "Error parsing ArXiv response: ")

C4_Witness ==
    /\ pc = "parsed"
    /\ xml_data = TextData(NotXml)
    /\ all_papers = <<>>
    /\ Levels(messages) = <<"error">>

C6_SameVocabulary ==
    pc = "built" =>
        \A t \in Topics :
            selected_topics = Only({t}) =>
                Range(topic_terms) = Range(topic_keywords[t])

\* C7: for every date range with dateFrom <= dateTo and any free text, the
\* expression has exactly one date clause, and it is
\* submittedDate:[<dateFrom>0000 TO <dateTo>2359].
C7_ExactlyOneDateClause ==
    pc = "built" =>
        /\ Occurrences(query, "submittedDate:[") = 1
        /\ EndsWith(query, "(" \o DateClause(date_range) \o ")")

\* C8 as stated: for the example criteria the expression is
\* (ti:(K) OR abs:(K)) AND (cat:cs.AI) AND (submittedDate:[202401010000 TO 202401312359]),
\* every clause in one pair of parentheses.
C8_ExampleQueryOnePair ==
    (pc = "built" /\ ExampleCriteria) =>
        query = "(ti:(" \o SafetyK \o ") OR abs:(" \o SafetyK \o ")) AND (cat:cs.AI)"
                \o " AND (submittedDate:[202401010000 TO 202401312359])"

\* the clause of each kind as it stands inside the expression
FreeTextClause ==
    IF include_abstracts
    THEN "((ti:" \o strip(search_query) \o " OR abs:" \o strip(search_query) \o "))"
    ELSE "(ti:" \o strip(search_query) \o ")"

CategoryClause ==
    "((" \o Join([i \in 1..Len(selected_categories) |->
                      "cat:" \o selected_categories[i]], " OR ") \o "))"

KeywordClauseStart == IF include_abstracts THEN "((ti:(\"" ELSE "(ti:(\""

\* C8 amended: the clauses come in the order free text, topic keywords,
\* categories, date range, joined by ' AND '; build_arxiv_query puts one
\* pair of parentheses around every clause, on top of the pair that the
\* title-or-abstract clauses and the category clause already have, so for
\* the example criteria the expression is
\* ((ti:(K) OR abs:(K))) AND ((cat:cs.AI)) AND (submittedDate:[202401010000 TO 202401312359]).
C8_ClauseOrderAndExample ==
    pc = "built" =>
        /\ ExampleCriteria =>
              query = "((ti:(" \o SafetyK \o ") OR abs:(" \o SafetyK \o "))) AND ((cat:cs.AI))"
                      \o " AND (submittedDate:[202401010000 TO 202401312359])"
        /\ LET n  == Len(query_parts)
               ft == IF search_query # "" THEN 1 ELSE 0
               tp == IF \E t \in Topics : selected_topics[t] THEN 1 ELSE 0
               ct == IF selected_categories # <<>> THEN 1 ELSE 0
           IN  /\ n = ft + tp + ct + 1
               /\ ft = 1 => StartsWith(query, FreeTextClause)
               /\ tp = 1 => StartsWith(query,
                               (IF ft = 1 THEN FreeTextClause \o " AND " ELSE "")
                                   \o KeywordClauseStart)
               /\ ct = 1 => EndsWith(query, CategoryClause \o " AND ("
                                               \o DateClause(date_range) \o ")")
               /\ (ct = 0 /\ tp = 1) =>
                      EndsWith(query, "\"" \o (IF include_abstracts THEN "))) AND ("
                                                ELSE ")) AND (")
                                           \o DateClause(date_range) \o ")")
               /\ EndsWith(query, "(" \o DateClause(date_range) \o ")")
               /\ n = 1 => query = "(" \o DateClause(date_range) \o ")"

C8_Witness ==
    /\ pc = "built"
    /\ ExampleCriteria
    /\ Len(query_parts) = 3
    /\ StartsWith(query, "((ti:(\"safety\" OR ")

\* C9: with no topic selected, empty free text and no category the
\* expression is the date-range clause alone: no free-text, keyword or
\* category clause and no AND.
C9_OnlyDateClause ==
    (/\ pc = "built"
     /\ search_query = ""
     /\ \A t \in Topics : ~selected_topics[t]
     /\ selected_categories = <<>>) =>
        /\ query = "(" \o DateClause(date_range) \o ")"
        /\ query_parts = <<DateClause(date_range)>>
        /\ ~Contains(query, " AND ")
        /\ ~Contains(query, "ti:")
        /\ ~Contains(query, "abs:")
        /\ ~Contains(query, "cat:")

C9_Witness ==
    /\ pc = "built"
    /\ search_query = ""
    /\ selected_topics = Only({})
    /\ selected_categories = <<>>
    /\ date_range = January2024
    /\ query = "(submittedDate:[202401010000 TO 202401312359])"

====
